---------------------------- MODULE Spec2Model ----------------------------
(***************************************************************************)
(* Model of the window-PoSt task extractor (tasks/actorstate/miner/post.go) *)
(* and of the version-9 datacap state's code lookup                        *)
(* (chain/actors/builtin/datacap/v9.go).                                   *)
(*                                                                         *)
(* A Go nil and an absent value are modelled as the empty sequence <<>>,   *)
(* a present value x as <<x>>; so a nil map (<<>>) differs from an empty,  *)
(* loaded map (<< <<>> >>).                                                *)
(***************************************************************************)
EXTENDS Integers, Sequences, FiniteSets, TLC

\* ------------------------------------------------------------------ bounds
MaxMsgs == 2

MaxEntries == 2

NumCalls == 2

\* --------------------------------------------------------------- constants
\* the method number compared at post.go:116
SubmitWindowedPoSt == 5

VARIABLES
    store,       \* the read-through object store: snapshot id -> miner state
    codeTable,   \* the (version, key) pairs actors.GetActorCodeID knows
    codeOut,     \* outcome of the last state9.Code call
    a,           \* a.Address of each Extract call
    pc,          \* position of each Extract call
    ec,          \* extraction context of each call (<<>> until created)
    tsMsgs,      \* tsMsgs.Executed of each call
    i,           \* index of the message the range loop is at
    partitions,  \* closure variable `partitions`, per closure environment
    posts,       \* closure variable `posts`, per closure environment
    result,      \* what Extract returned (or that it panicked)
    fetched,     \* number of ExecutedAndBlockMessages calls made by each call
    decoded,     \* Cids of the messages whose params were handed to UnmarshalCBOR
    loads        \* the loadPartitions calls made: who triggered, which state, which epoch

vars == <<store, codeTable, codeOut, a, pc, ec, tsMsgs, i, partitions, posts,
          result, fetched, decoded, loads>>

extractVars == <<a, pc, ec, tsMsgs, i, partitions, posts, result, fetched,
                 decoded, loads>>

\* ----------------------------------------------------------------- helpers
None == <<>>

Some(x) == <<x>>

RECURSIVE SeqsUpTo(_, _)
SeqsUpTo(S, n) ==
    IF n = 0 THEN {<<>>}
    ELSE LET shorter == SeqsUpTo(S, n - 1)
         IN shorter \cup {Append(s, x) : s \in {t \in shorter : Len(t) = n - 1}, x \in S}

Min(S) == CHOOSE x \in S : \A y \in S : x <= y

\* bitfield ForEach visits the members in ascending order
RECURSIVE Ascending(_)
Ascending(S) == IF S = {} THEN <<>> ELSE <<Min(S)>> \o Ascending(S \ {Min(S)})

\* -------------------------------------------------------- the object store
Part(sectors, fail) == [Sectors |-> sectors, fail |-> fail]

Snap(fail, deadlines) == [fail |-> fail, deadlines |-> deadlines]

Snapshots ==
    [ id \in {"sA", "sB", "sBadInfo", "sBadDl", "sBadIter", "sBadPart"} |->
      CASE id = "sA" ->
             Snap("", << (0 :> Part({1, 2, 3}, "") @@ 1 :> Part({3, 4}, "")),
                         (0 :> Part({2}, "")) >>)
        [] id = "sB" ->
             Snap("", << (0 :> Part({1, 2, 3, 5}, "")),
                         (0 :> Part({1, 2, 3}, "") @@ 1 :> Part({6}, "")) >>)
        [] id = "sBadInfo" -> Snap("deadline info", <<>>)
        [] id = "sBadDl" -> Snap("load deadline", << <<>> >>)
        [] id = "sBadIter" -> Snap("foreach partition", << (0 :> Part({1}, "")) >>)
        [] OTHER ->
             Snap("", << (0 :> Part({1, 2, 3}, "all sectors")
                          @@ 1 :> Part({3, 4}, "subtract skipped bitfield")),
                         (0 :> Part({1, 2, 3}, "foreach proven")) >>) ]

\* miner.State.DeadlineInfo: the open deadline is a function of state and height
DeadlineInfo(state, epoch) ==
    IF state.fail = "deadline info" THEN [err |-> TRUE, Index |-> 0]
    ELSE [err |-> FALSE, Index |-> (epoch % Len(state.deadlines)) + 1]

\* miner.State.LoadDeadline
LoadDeadline(state, idx) ==
    IF state.fail = "load deadline" THEN [err |-> TRUE, dline |-> <<>>]
    ELSE [err |-> FALSE, dline |-> state.deadlines[idx]]

\* miner.Deadline.ForEachPartition: the (idx, partition) pairs handed to the callback
ForEachPartition(state, dline) ==
    IF state.fail = "foreach partition" THEN [err |-> TRUE, pmap |-> <<>>]
    ELSE [err |-> FALSE, pmap |-> dline]

\* ------------------------------------------------------------ the messages
Entry(idx, skipped) == [Index |-> idx, Skipped |-> skipped]

Entries == {Entry(0, {2}), Entry(1, {})}

GoodParams(ps) == [wellFormed |-> TRUE, Partitions |-> ps]

BadParams == [wellFormed |-> FALSE, Partitions |-> <<>>]

ParamsSet == {BadParams} \cup {GoodParams(ps) : ps \in SeqsUpTo(Entries, MaxEntries)}

Msg(to, method, receipt, params) ==
    [To |-> to, Method |-> method, Receipt |-> receipt, Params |-> params]

\* to the actor, method 5, receipt present with exit code 0
PoStMsgs == {Msg("f01", SubmitWindowedPoSt, Some(0), p) : p \in ParamsSet}

\* to the actor, method 5, receipt absent or reporting a failure
FailedMsgs ==
    {Msg("f01", SubmitWindowedPoSt, r, p) :
        r \in {None, Some(16)}, p \in {BadParams, GoodParams(<<Entry(0, {2})>>)}}

\* another recipient or another method
OtherMsgs ==
    { Msg("f02", SubmitWindowedPoSt, Some(0), GoodParams(<<Entry(0, {2})>>)),
      Msg("f02", SubmitWindowedPoSt, None, BadParams),
      Msg("f01", 6, Some(0), BadParams),
      Msg("f01", 6, Some(0), GoodParams(<<Entry(1, {})>>)) }

MsgAlphabet == PoStMsgs \cup FailedMsgs \cup OtherMsgs

\* every executed message carries its own Cid: here its position in the list
WithCids(ms) ==
    [k \in 1..Len(ms) |->
        [To |-> ms[k].To, Method |-> ms[k].Method, Receipt |-> ms[k].Receipt,
         Params |-> ms[k].Params, Cid |-> k]]

MsgLists == {WithCids(ms) : ms \in SeqsUpTo(MsgAlphabet, MaxMsgs)}

\* ------------------------------------------------------------ the contexts
Ctx(hasPrev, prevState, prevHeight, curState, curHeight) ==
    [HasPrev |-> hasPrev, PrevState |-> prevState, PrevHeight |-> prevHeight,
     CurrentState |-> curState, CurrentHeight |-> curHeight]

GenesisCtx == Ctx(FALSE, "nil", 0, "sA", 0)

Contexts ==
    { GenesisCtx,
      Ctx(TRUE, "sA", 0, "sB", 1),
      Ctx(TRUE, "sA", 1, "sB", 2),
      Ctx(TRUE, "sBadInfo", 0, "sA", 1),
      Ctx(TRUE, "sBadDl", 0, "sA", 1),
      Ctx(TRUE, "sBadIter", 0, "sA", 1),
      Ctx(TRUE, "sBadPart", 0, "sA", 1),
      Ctx(TRUE, "sBadPart", 1, "sA", 2) }


\* ------------------------------------------------- post.go: pure functions
Ok(parts, records, didDecode, didLoad) ==
    [status |-> "ok", err |-> "", partitions |-> parts, records |-> records,
     decoded |-> didDecode, loads |-> didLoad]

Fail(status, err, parts, didLoad) ==
    [status |-> status, err |-> err, partitions |-> parts, records |-> <<>>,
     decoded |-> TRUE, loads |-> didLoad]

\* post.go:43-60; a nil state (no previous state) makes state.DeadlineInfo panic
loadPartitions(st, stateId, epoch) ==
    IF stateId \notin DOMAIN st
    THEN [status |-> "panic", err |-> "nil pointer dereference", pmap |-> None]
    ELSE LET state == st[stateId]
             info == DeadlineInfo(state, epoch)
         IN IF info.err THEN [status |-> "err", err |-> "deadline info", pmap |-> None]
            ELSE LET dl == LoadDeadline(state, info.Index)
                 IN IF dl.err THEN [status |-> "err", err |-> "load deadline", pmap |-> None]
                    ELSE LET it == ForEachPartition(state, dl.dline)
                         IN IF it.err
                            THEN [status |-> "err", err |-> "foreach partition", pmap |-> None]
                            ELSE [status |-> "ok", err |-> "", pmap |-> Some(it.pmap)]

\* a receipt check that forgets the exit code
ReceiptAbsent(msg) == msg.Receipt = None

\* post.go:64
ReceiptFailed(msg) == msg.Receipt = None \/ msg.Receipt[1] # 0

\* post.go:67-70: SubmitWindowedPoStParams.UnmarshalCBOR of msg.Message.Params
UnmarshalCBOR(params) ==
    IF params.wellFormed THEN [err |-> FALSE, Partitions |-> params.Partitions]
    ELSE [err |-> TRUE, Partitions |-> <<>>]

\* post.go:68-70: what processPostMsg does with a decode error
OnDecodeError(parts) == Fail("err", "unmarshal post params", parts, <<>>)

\* a load on every message
AlwaysLoad(parts) == TRUE

\* post.go:74
NeedLoad(parts) == parts = None

\* post.go:75: the arguments of the loadPartitions call
LoadArgs(e) == <<e.PrevState, e.PrevHeight>>

\* post.go:81-97: the sectors appended for the entries ps, in order.  An index
\* absent from the map yields the nil Partition interface, and the AllSectors
\* call on it is a nil dereference (the goroutine panics).
RECURSIVE provenSectors(_, _)
provenSectors(ps, pmap) ==
    IF ps = <<>> THEN [status |-> "ok", err |-> "", sectors |-> <<>>]
    ELSE LET p == Head(ps) IN
         IF p.Index \notin DOMAIN pmap
         THEN [status |-> "panic", err |-> "nil pointer dereference", sectors |-> <<>>]
         ELSE LET part == pmap[p.Index] IN
              IF part.fail # "" THEN [status |-> "err", err |-> part.fail, sectors |-> <<>>]
              ELSE LET proven == part.Sectors \ p.Skipped
                       rest == provenSectors(Tail(ps), pmap)
                   IN IF rest.status # "ok" THEN rest
                      ELSE [status |-> "ok", err |-> "",
                            sectors |-> Ascending(proven) \o rest.sectors]

\* post.go:99-106
MinerSectorPost(e, addr, s, msg) ==
    [Height |-> e.PrevHeight, MinerID |-> addr, SectorID |-> s, PostMessageCID |-> msg.Cid]

\* post.go:62-108
processPostMsg(msg, parts, e, addr, st) ==
    IF ReceiptFailed(msg) THEN Ok(parts, <<>>, FALSE, <<>>)
    ELSE LET params == UnmarshalCBOR(msg.Params) IN
      IF params.err THEN OnDecodeError(parts)
      ELSE LET args == LoadArgs(e)
               need == NeedLoad(parts)
               ld == IF need THEN loadPartitions(st, args[1], args[2])
                     ELSE [status |-> "ok", err |-> "", pmap |-> parts]
               didLoad == IF need
                          THEN <<[by |-> msg.Cid, state |-> args[1], epoch |-> args[2]]>>
                          ELSE <<>>
           IN IF ld.status # "ok"
              THEN Fail(ld.status,
                        IF ld.status = "err" THEN "load partitions: " \o ld.err ELSE ld.err,
                        ld.pmap, didLoad)
              ELSE LET sec == provenSectors(params.Partitions, ld.pmap[1]) IN
                   IF sec.status # "ok"
                   THEN Fail(sec.status, sec.err, ld.pmap, didLoad)
                   ELSE Ok(ld.pmap,
                           [k \in 1..Len(sec.sectors) |->
                               MinerSectorPost(e, addr, sec.sectors[k], msg)],
                           TRUE, didLoad)

\* a filter that forgets the recipient
QualifiesByMethod(msg, addr) == msg.Method = SubmitWindowedPoSt

\* post.go:116
Qualifies(msg, addr) == msg.To = addr /\ msg.Method = SubmitWindowedPoSt

\* a genesis check that never short-circuits
AlwaysHasPrevious(e) == TRUE

\* post.go:36
HasPreviousState(e) == e.HasPrev

\* what Extract returned: (value, nil), (nil, err), or a panic that unwound it
Returned(isNil, value) == [status |-> "ok", nil |-> isNil, value |-> value, err |-> ""]

Errored(err) == [status |-> "err", nil |-> TRUE, value |-> <<>>, err |-> err]

Panicked(err) == [status |-> "panic", nil |-> TRUE, value |-> <<>>, err |-> err]

NotReturned == [status |-> "none", nil |-> TRUE, value |-> <<>>, err |-> ""]

\* posts and partitions kept in one place for every invocation
SharedEnv(c) == 1

\* post.go:40-42: posts and partitions are locals of the invocation, captured by
\* its closures; each invocation has its own
Env(c) == c

\* post.go:115-122 run to completion on its own: the range loop from message k
RECURSIVE RunLoop(_, _, _, _, _, _, _)
RunLoop(msgs, k, parts, acc, e, addr, st) ==
    IF k > Len(msgs) THEN Returned(FALSE, acc)
    ELSE IF ~Qualifies(msgs[k], addr) THEN RunLoop(msgs, k + 1, parts, acc, e, addr, st)
    ELSE LET r == processPostMsg(msgs[k], parts, e, addr, st) IN
         IF r.status = "ok"
         THEN RunLoop(msgs, k + 1, r.partitions, acc \o r.records, e, addr, st)
         ELSE IF r.status = "err" THEN Errored("process post msg: " \o r.err)
         ELSE Panicked(r.err)


\* ------------------------------------------------------ post.go: the steps
\* post.go:30-42: build the extraction context, short-circuit genesis, declare
\* posts and partitions
Begin(c, ctxs) ==
    /\ pc[c] = "start"
    /\ \/ /\ result' = [result EXCEPT
                          ![c] = Errored("creating miner state extraction context")]
          /\ pc' = [pc EXCEPT ![c] = "done"]
          /\ UNCHANGED <<ec, posts, partitions>>
       \/ \E e \in ctxs :
            /\ ec' = [ec EXCEPT ![c] = Some(e)]
            /\ IF ~HasPreviousState(e)
               THEN /\ result' = [result EXCEPT ![c] = Returned(TRUE, <<>>)]
                    /\ pc' = [pc EXCEPT ![c] = "done"]
                    /\ UNCHANGED <<posts, partitions>>
               ELSE /\ posts' = [posts EXCEPT ![Env(c)] = <<>>]
                    /\ partitions' = [partitions EXCEPT ![Env(c)] = None]
                    /\ pc' = [pc EXCEPT ![c] = "fetch"]
                    /\ UNCHANGED result
    /\ UNCHANGED <<store, codeTable, codeOut, a, tsMsgs, i, fetched, decoded, loads>>

\* post.go:110-113: node.ExecutedAndBlockMessages
Fetch(c, lists) ==
    /\ pc[c] = "fetch"
    /\ fetched' = [fetched EXCEPT ![c] = @ + 1]
    /\ \/ /\ result' = [result EXCEPT
                          ![c] = Errored("getting executed and block messages")]
          /\ pc' = [pc EXCEPT ![c] = "done"]
          /\ UNCHANGED <<tsMsgs, i>>
       \/ \E ms \in lists :
            /\ tsMsgs' = [tsMsgs EXCEPT ![c] = ms]
            /\ i' = [i EXCEPT ![c] = 1]
            /\ pc' = [pc EXCEPT ![c] = "loop"]
            /\ UNCHANGED result
    /\ UNCHANGED <<store, codeTable, codeOut, a, ec, posts, partitions, decoded, loads>>

\* post.go:115-121: one iteration of the range loop
Iterate(c) ==
    /\ pc[c] = "loop"
    /\ i[c] <= Len(tsMsgs[c])
    /\ LET msg == tsMsgs[c][i[c]] IN
       IF Qualifies(msg, a[c])
       THEN LET r == processPostMsg(msg, partitions[Env(c)], ec[c][1], a[c], store) IN
            /\ partitions' = [partitions EXCEPT ![Env(c)] = r.partitions]
            /\ decoded' = [decoded EXCEPT ![c] = IF r.decoded THEN @ \cup {msg.Cid} ELSE @]
            /\ loads' = [loads EXCEPT ![c] = @ \o r.loads]
            /\ IF r.status = "ok"
               THEN /\ posts' = [posts EXCEPT ![Env(c)] = @ \o r.records]
                    /\ i' = [i EXCEPT ![c] = @ + 1]
                    /\ UNCHANGED <<pc, result>>
               ELSE /\ result' = [result EXCEPT
                                    ![c] = IF r.status = "err"
                                           THEN Errored("process post msg: " \o r.err)
                                           ELSE Panicked(r.err)]
                    /\ pc' = [pc EXCEPT ![c] = "done"]
                    /\ UNCHANGED <<posts, i>>
       ELSE /\ i' = [i EXCEPT ![c] = @ + 1]
            /\ UNCHANGED <<pc, result, posts, partitions, decoded, loads>>
    /\ UNCHANGED <<store, codeTable, codeOut, a, ec, tsMsgs, fetched>>

\* post.go:122
Return(c) ==
    /\ pc[c] = "loop"
    /\ i[c] > Len(tsMsgs[c])
    /\ result' = [result EXCEPT ![c] = Returned(FALSE, posts[Env(c)])]
    /\ pc' = [pc EXCEPT ![c] = "done"]
    /\ UNCHANGED <<store, codeTable, codeOut, a, ec, tsMsgs, i, posts, partitions,
                   fetched, decoded, loads>>

\* ------------------------------------------------------- datacap/v9.go
\* v9.go:81-83
ActorVersion == 9

\* v9.go:77-79
ActorKey == "datacap"

Versions == {8, 9, 10}

ActorKeys == {"datacap", "storageminer", "verifiedregistry"}

\* actors.GetActorCodeID: (code, ok)
GetActorCodeID(table, av, key) ==
    IF <<av, key>> \in table THEN [ok |-> TRUE, code |-> <<av, key>>]
    ELSE [ok |-> FALSE, code |-> <<>>]

\* v9.go:85-92: the value Code hands back, or the panic that unwinds it
CodeOutcome(table) ==
    LET r == GetActorCodeID(table, ActorVersion, ActorKey) IN
    IF ~r.ok THEN [status |-> "panic", code |-> <<>>]
    ELSE [status |-> "ok", code |-> r.code]

\* v9.go:85-92
Code ==
    /\ codeOut' = CodeOutcome(codeTable)
    /\ UNCHANGED <<store, codeTable>>
    /\ UNCHANGED extractVars

\* ------------------------------------------------------- specifications
InitCalls(calls, addrs) ==
    /\ store = Snapshots
    /\ codeOut = [status |-> "none", code |-> <<>>]
    /\ a \in [calls -> addrs]
    /\ pc = [c \in calls |-> "start"]
    /\ ec = [c \in calls |-> None]
    /\ tsMsgs = [c \in calls |-> <<>>]
    /\ i = [c \in calls |-> 0]
    /\ partitions = [c \in calls |-> None]
    /\ posts = [c \in calls |-> <<>>]
    /\ result = [c \in calls |-> NotReturned]
    /\ fetched = [c \in calls |-> 0]
    /\ decoded = [c \in calls |-> {}]
    /\ loads = [c \in calls |-> <<>>]

\* one Extract call
Init == InitCalls({1}, {"f01"}) /\ codeTable = {<<ActorVersion, ActorKey>>}

Next ==
    \/ \E c \in DOMAIN pc : Begin(c, Contexts)
    \/ \E c \in DOMAIN pc : Fetch(c, MsgLists)
    \/ \E c \in DOMAIN pc : Iterate(c)
    \/ \E c \in DOMAIN pc : Return(c)

Spec == Init /\ [][Next]_vars

\* the scheduler's concurrent Extract calls over the one store
ConcContexts == {GenesisCtx, Ctx(TRUE, "sA", 0, "sB", 1), Ctx(TRUE, "sB", 1, "sA", 2)}

ConcLists ==
    { WithCids(<<Msg("f01", SubmitWindowedPoSt, Some(0), GoodParams(<<Entry(0, {2})>>))>>),
      WithCids(<<Msg("f02", SubmitWindowedPoSt, Some(0), GoodParams(<<Entry(1, {})>>)),
                 Msg("f01", SubmitWindowedPoSt, Some(0), GoodParams(<<Entry(1, {})>>))>>),
      WithCids(<<Msg("f01", SubmitWindowedPoSt, Some(0), GoodParams(<<Entry(0, {2})>>)),
                 Msg("f01", SubmitWindowedPoSt, Some(0), BadParams)>>) }

InitConc == InitCalls(1..NumCalls, {"f01", "f02"}) /\ codeTable = {<<ActorVersion, ActorKey>>}

NextConc ==
    \/ \E c \in DOMAIN pc : Begin(c, ConcContexts)
    \/ \E c \in DOMAIN pc : Fetch(c, ConcLists)
    \/ \E c \in DOMAIN pc : Iterate(c)
    \/ \E c \in DOMAIN pc : Return(c)

SpecConc == InitConc /\ [][NextConc]_vars

\* state9.Code against every code table
InitCode == InitCalls({}, {}) /\ codeTable \in SUBSET (Versions \X ActorKeys)

NextCode == Code

SpecCode == InitCode /\ [][NextCode]_vars


\* ------------------------------------------------------------- properties
Calls == DOMAIN pc

\* the records in the call's posts list that carry message k's Cid
RecordsOf(c, k) ==
    LET ofK(r) == r.PostMessageCID = k IN SelectSeq(posts[c], ofK)

\* the call ended, without a result, while processing message k
FailedAt(c, k) == pc[c] = "done" /\ result[c].status # "ok" /\ i[c] = k

\* the range loop has been through message k
Processed(c, k) == k < i[c] \/ FailedAt(c, k)

LoadsBy(c, k) == {n \in 1..Len(loads[c]) : loads[c][n].by = k}

ToActorMethod5(c, k) ==
    tsMsgs[c][k].To = a[c] /\ tsMsgs[c][k].Method = 5

ReceiptOk(c, k) ==
    tsMsgs[c][k].Receipt # <<>> /\ tsMsgs[c][k].Receipt[1] = 0

\* C1: a call whose extraction context has no previous state is over at once
\* with the result (nil, nil), and has never called ExecutedAndBlockMessages;
\* a call that has fetched has a context with a previous state.
C1_GenesisShortCircuit ==
    \A c \in Calls :
        /\ (ec[c] # <<>> /\ ~ec[c][1].HasPrev) =>
              /\ pc[c] = "done"
              /\ result[c] = [status |-> "ok", nil |-> TRUE, value |-> <<>>, err |-> ""]
              /\ fetched[c] = 0
        /\ fetched[c] > 0 => (ec[c] # <<>> /\ ec[c][1].HasPrev)

C1_Witness ==
    \E c \in Calls : ec[c] # <<>> /\ ~ec[c][1].HasPrev /\ pc[c] = "done"

\* C2: a message whose receipt is absent or reports a failure is never decoded,
\* adds no record, triggers no partition load and is never the message the call
\* fails at, whatever its parameter bytes.
C2_FailedReceiptSkipped ==
    \A c \in Calls : \A k \in 1..Len(tsMsgs[c]) :
        (tsMsgs[c][k].Receipt = <<>> \/ tsMsgs[c][k].Receipt[1] # 0) =>
            /\ k \notin decoded[c]
            /\ RecordsOf(c, k) = <<>>
            /\ LoadsBy(c, k) = {}
            /\ ~FailedAt(c, k)

C2_Witness ==
    \E c \in Calls : \E k \in 1..Len(tsMsgs[c]) :
        /\ k < i[c]
        /\ ToActorMethod5(c, k)
        /\ tsMsgs[c][k].Receipt = <<16>>
        /\ ~tsMsgs[c][k].Params.wellFormed

\* C3: a finished call whose fetched list holds a qualifying message (to the
\* actor, method 5, successful receipt) with undecodable parameters returned an
\* error and no records.
C3_DecodeFailureReturnsError ==
    \A c \in Calls :
        (/\ pc[c] = "done"
         /\ \E k \in 1..Len(tsMsgs[c]) :
               ToActorMethod5(c, k) /\ ReceiptOk(c, k) /\ ~tsMsgs[c][k].Params.wellFormed)
        => (result[c].status = "err" /\ result[c].nil)

\* C4: when the loop has been through a qualifying, decoded message that
\* references a partition index absent from the loaded partition map, the call
\* has ended with an explicit error return and no records.
C4_MissingPartitionReturnsError ==
    \A c \in Calls : \A k \in 1..Len(tsMsgs[c]) :
        (/\ Processed(c, k)
         /\ ToActorMethod5(c, k) /\ ReceiptOk(c, k) /\ tsMsgs[c][k].Params.wellFormed
         /\ partitions[c] # <<>>
         /\ \E n \in 1..Len(tsMsgs[c][k].Params.Partitions) :
               tsMsgs[c][k].Params.Partitions[n].Index \notin DOMAIN partitions[c][1])
        => (pc[c] = "done" /\ result[c].status = "err" /\ result[c].nil)

\* C5: state9.Code never aborts the process: for a pair GetActorCodeID does not
\* know, its caller gets an explicit error value.
C5_CodeNeverAborts ==
    /\ codeOut.status # "panic"
    /\ (codeOut.status # "none" /\ <<9, "datacap">> \notin codeTable) => codeOut.status = "err"

\* C6: the records emitted for a successfully processed qualifying message are
\* one per element of the union, over its entries (i, K), of AllSectors(i) \ K
\* (no sector twice), each with the previous tipset's height, the actor's
\* address and the message's Cid.
C6_OneRecordPerProvenSector ==
    \A c \in Calls : \A k \in 1..Len(tsMsgs[c]) :
        (/\ k < i[c]
         /\ ToActorMethod5(c, k) /\ ReceiptOk(c, k) /\ tsMsgs[c][k].Params.wellFormed)
        => LET ps == tsMsgs[c][k].Params.Partitions
               pmap == partitions[c][1]
               union == UNION {pmap[ps[n].Index].Sectors \ ps[n].Skipped : n \in 1..Len(ps)}
               recs == RecordsOf(c, k)
           IN /\ {recs[n].SectorID : n \in 1..Len(recs)} = union
              /\ Len(recs) = Cardinality(union)
              /\ \A n \in 1..Len(recs) :
                    /\ recs[n].Height = ec[c][1].PrevHeight
                    /\ recs[n].MinerID = a[c]
                    /\ recs[n].PostMessageCID = tsMsgs[c][k].Cid

\* C7: a call loads the partition map at most once, always from the previous
\* state at the previous tipset's height, and the map its messages are resolved
\* against is that state's deadline at that height.
C7_PartitionsLoadedOnceFromPrev ==
    \A c \in Calls :
        /\ Len(loads[c]) <= 1
        /\ \A n \in 1..Len(loads[c]) :
              /\ loads[c][n].state = ec[c][1].PrevState
              /\ loads[c][n].epoch = ec[c][1].PrevHeight
        /\ partitions[c] # <<>> =>
              /\ Len(loads[c]) = 1
              /\ LET prev == store[ec[c][1].PrevState]
                 IN partitions[c][1] =
                      prev.deadlines[(ec[c][1].PrevHeight % Len(prev.deadlines)) + 1]

C7_Witness ==
    \E c \in Calls :
        /\ i[c] = 3
        /\ \A k \in {1, 2} :
              /\ ToActorMethod5(c, k) /\ ReceiptOk(c, k)
              /\ Len(tsMsgs[c][k].Params.Partitions) > 0
        /\ Len(loads[c]) = 1
        /\ posts[c] # <<>>

\* C8: a qualifying message with a successful receipt and an empty partition
\* list adds no record and is never the message the call fails at.
C8_EmptyPartitionListNoError ==
    \A c \in Calls : \A k \in 1..Len(tsMsgs[c]) :
        (/\ ToActorMethod5(c, k) /\ ReceiptOk(c, k)
         /\ tsMsgs[c][k].Params.wellFormed
         /\ tsMsgs[c][k].Params.Partitions = <<>>)
        => (RecordsOf(c, k) = <<>> /\ ~FailedAt(c, k))

\* the result the call's inputs give when it runs on its own
ResultAlone(c) ==
    IF ec[c] = <<>> THEN Errored("creating miner state extraction context")
    ELSE IF ~ec[c][1].HasPrev THEN Returned(TRUE, <<>>)
    ELSE IF i[c] = 0 THEN Errored("getting executed and block messages")
    ELSE RunLoop(tsMsgs[c], 1, <<>>, <<>>, ec[c][1], a[c], Snapshots)

\* C9: under every interleaving of the steps of concurrent calls, the store is
\* never changed and each finished call's result is the one its inputs give
\* when it runs alone.
C9_ConcurrentCallsIndependent ==
    /\ store = Snapshots
    /\ \A c \in Calls : pc[c] = "done" => result[c] = ResultAlone(c)

C9_Witness ==
    \E c \in Calls : \E d \in Calls :
        /\ c # d
        /\ pc[c] = "done" /\ pc[d] = "done"
        /\ result[c].status = "ok" /\ result[d].status = "ok"
        /\ result[c].value # <<>> /\ result[d].value # <<>>
        /\ loads[c] # <<>> /\ loads[d] # <<>>
        /\ loads[c][1].epoch # loads[d][1].epoch

\* C10: a message to another recipient or of another method is never decoded,
\* adds no record, triggers no partition load and is never the message the call
\* fails at; a call with a previous state whose fetched list holds no qualifying
\* message returns an empty, non-nil record list and no error.
C10_OnlyQualifyingProcessed ==
    \A c \in Calls :
        /\ \A k \in 1..Len(tsMsgs[c]) :
              ~(tsMsgs[c][k].To = a[c] /\ tsMsgs[c][k].Method = 5) =>
                  /\ k \notin decoded[c]
                  /\ RecordsOf(c, k) = <<>>
                  /\ LoadsBy(c, k) = {}
                  /\ ~FailedAt(c, k)
        /\ (/\ pc[c] = "done"
            /\ i[c] >= 1
            /\ \A k \in 1..Len(tsMsgs[c]) :
                  ~(tsMsgs[c][k].To = a[c] /\ tsMsgs[c][k].Method = 5))
           => result[c] = [status |-> "ok", nil |-> FALSE, value |-> <<>>, err |-> ""]

C10_Witness ==
    \E c \in Calls :
        /\ pc[c] = "done"
        /\ Len(tsMsgs[c]) = 2
        /\ \A k \in 1..Len(tsMsgs[c]) :
              ~(tsMsgs[c][k].To = a[c] /\ tsMsgs[c][k].Method = 5)
        /\ \E k \in 1..Len(tsMsgs[c]) :
              /\ tsMsgs[c][k].Method = 5 /\ ReceiptOk(c, k)
              /\ tsMsgs[c][k].Params.wellFormed
        /\ \E k \in 1..Len(tsMsgs[c]) :
              tsMsgs[c][k].To = a[c] /\ ~tsMsgs[c][k].Params.wellFormed

=============================================================================
